---- MODULE Spec2Model ----
(***************************************************************************)
(* Model of spotify_confidence's BokehGrapher: the significance colouring  *)
(* of _categorical_difference_chart and the hover-tooltip assembly of      *)
(* add_tools / add_ci_to_chart_datasources, the plot_difference family and  *)
(* ChartGrid.show.                                                         *)
(***************************************************************************)
EXTENDS FiniteSets, Integers, Sequences, TLC

VARIABLES
    ordinal_group_column,   \* self._ordinal_group_column
    pc,                     \* "idle", or the name of the call that has returned
    row,                    \* the row handed to the color_column lambda
    color,                  \* the lambda's result for that row
    difference_df,          \* table handed to _categorical_difference_chart
    use_adjusted_intervals, \* flag of the last call
    dash_source,            \* rows behind the "nim" dashes, with color_column
    tools_df,               \* table (columns, length) handed to add_tools
    center_name,            \* add_tools argument
    ordinal,                \* add_tools argument
    axis_format,            \* first result of axis_format_precision(absolute)
    axis_format_reference_level, \* same, with absolute=True
    chart_data,             \* chart.data: the data sources of the renderers
    tooltips,               \* tooltips handed to HoverTool
    error,                  \* "none", or the exception the call raised
    charts,                 \* ChartGrid.charts of the grid that was shown
    show_format,            \* the format argument of ChartGrid.show
    shown,                  \* the calls ChartGrid.show made, in order
    plot_df,                \* table handed to a plot_difference method
    groupby,                \* its groupby argument
    split_plot_by_groups,   \* its split_plot_by_groups argument
    plot_charts             \* .charts of the ChartGrid it returned

vars == <<ordinal_group_column, pc, row, color, difference_df,
          use_adjusted_intervals, dash_source, tools_df, center_name, ordinal,
          axis_format, axis_format_reference_level, chart_data, tooltips, error,
          charts, show_format, shown, plot_df, groupby, split_plot_by_groups,
          plot_charts>>

grid_vars == <<charts, show_format, shown>>
plot_vars == <<plot_df, groupby, split_plot_by_groups, plot_charts>>

-----------------------------------------------------------------------------
(* Bounds of the model *)

\* finite numbers range over -MaxVal..MaxVal
MaxVal == 1
\* _categorical_difference_chart is given tables of at most MaxRows rows
MaxRows == 2
\* add_tools is given tables of at most MaxLen rows
MaxLen == 5
\* a ChartGrid holds at most MaxCharts charts
MaxCharts == 3
\* the plot_difference methods are given tables of at most MaxPlotRows rows
MaxPlotRows == 2
\* a categorical group column has the levels 1..MaxLevel
MaxLevel == 2

-----------------------------------------------------------------------------
(* Floating point values: finite numbers, the two infinities and NaN *)

Fin(n) == [kind |-> "fin", val |-> n]
PosInf == [kind |-> "inf", val |-> 1]
NegInf == [kind |-> "inf", val |-> -1]
NaN == [kind |-> "nan", val |-> 0]

isfinite(x) == x.kind = "fin"
isna(x) == x.kind = "nan"

\* Python's a < b on floats: False as soon as one side is NaN
Lt(a, b) ==
    IF isna(a) \/ isna(b) THEN FALSE
    ELSE IF a.kind = "inf" THEN a.val = -1 /\ b # NegInf
    ELSE IF b.kind = "inf" THEN b.val = 1
    ELSE a.val < b.val

Le(a, b) == Lt(a, b) \/ (~isna(a) /\ a = b)

Floats == {Fin(n) : n \in -MaxVal..MaxVal} \cup {PosInf, NegInf, NaN}

-----------------------------------------------------------------------------
(* Column names imported from ..constants *)

CI_LOWER == "ci_lower"
CI_UPPER == "ci_upper"
ADJUSTED_LOWER == "adjusted_ci_lower"
ADJUSTED_UPPER == "adjusted_ci_upper"
DIFFERENCE == "difference"
POINT_ESTIMATE == "point_estimate"
NULL_HYPOTHESIS == "null_hypothesis"
NIM == "non_inferiority_margin"
PREFERENCE == "preference"
P_VALUE == "p-value"
ADJUSTED_P == "adjusted p-value"
ORIGINAL_POINT_ESTIMATE == "original_point_estimate"
SFX1 == "_1"

Preferences == {"increase", "decrease", "two-sided"}

\* a plausible slip: the lower bound is the plain one whatever the flag
LOWER_ci(adjusted) == CI_LOWER

\* LOWER, UPPER = (ADJUSTED_LOWER, ADJUSTED_UPPER) if use_adjusted_intervals
\*                else (CI_LOWER, CI_UPPER)
LOWER(adjusted) == IF adjusted THEN ADJUSTED_LOWER ELSE CI_LOWER
UPPER(adjusted) == IF adjusted THEN ADJUSTED_UPPER ELSE CI_UPPER

-----------------------------------------------------------------------------
(* The color_column lambda of _categorical_difference_chart *)

\* a plausible slip: <= where the code has <
color_column_le(r, lower, upper) ==
    IF \/ (Le(r[lower], r[NULL_HYPOTHESIS]) /\ r[PREFERENCE] = "increase")
       \/ (Le(r[NULL_HYPOTHESIS], r[upper]) /\ r[PREFERENCE] = "decrease")
    THEN "red" ELSE "green"

\* a plausible slip: the preference test of the second branch is lost
color_column_nopref(r, lower, upper) ==
    IF \/ (Lt(r[lower], r[NULL_HYPOTHESIS]) /\ r[PREFERENCE] = "increase")
       \/ Lt(r[NULL_HYPOTHESIS], r[upper])
    THEN "red" ELSE "green"

\* a plausible slip: the second branch compares the lower bound
color_column_lower(r, lower, upper) ==
    IF \/ (Lt(r[lower], r[NULL_HYPOTHESIS]) /\ r[PREFERENCE] = "increase")
       \/ (Lt(r[NULL_HYPOTHESIS], r[lower]) /\ r[PREFERENCE] = "decrease")
    THEN "red" ELSE "green"

\* "red" if row[LOWER] < row[NULL_HYPOTHESIS] and row[PREFERENCE] == "increase"
\*       or row[NULL_HYPOTHESIS] < row[UPPER] and row[PREFERENCE] == "decrease"
\* else "green"
color_column(r, lower, upper) ==
    IF \/ (Lt(r[lower], r[NULL_HYPOTHESIS]) /\ r[PREFERENCE] = "increase")
       \/ (Lt(r[NULL_HYPOTHESIS], r[upper]) /\ r[PREFERENCE] = "decrease")
    THEN "red" ELSE "green"

\* the rows the lambda is applied to: the four columns it reads
ClassifierRows(adjusted) ==
    { (LOWER(adjusted) :> lo) @@ (UPPER(adjusted) :> up)
      @@ (NULL_HYPOTHESIS :> nh) @@ (PREFERENCE :> p) :
        <<lo, up, nh, p>> \in Floats \X Floats \X Floats \X Preferences }

NoRow == [none |-> TRUE]
NoTable == [columns |-> {}, rows |-> <<>>]
NoToolsTable == [columns |-> {}, len |-> 0]

\* the ordinal_group_column the grapher is constructed with
OrdinalGroupColumns == {"date"}

Init ==
    /\ ordinal_group_column \in OrdinalGroupColumns
    /\ pc = "idle"
    /\ row = NoRow
    /\ color = "none"
    /\ difference_df = NoTable
    /\ use_adjusted_intervals = FALSE
    /\ dash_source = <<>>
    /\ tools_df = NoToolsTable
    /\ center_name = "none"
    /\ ordinal = FALSE
    /\ axis_format = "none"
    /\ axis_format_reference_level = "none"
    /\ chart_data = <<>>
    /\ tooltips = <<>>
    /\ error = "none"
    /\ charts = <<>>
    /\ show_format = "none"
    /\ shown = <<>>
    /\ plot_df = <<>>
    /\ groupby = [kind |-> "none", names |-> <<>>]
    /\ split_plot_by_groups = FALSE
    /\ plot_charts = <<>>

-----------------------------------------------------------------------------
(* Tables *)

\* columns of a difference table that carry no number the model reads
LEVEL_1 == "level_1"
LEVEL_2 == "level_2"
REFERENCE_LEVEL_AVG == ORIGINAL_POINT_ESTIMATE \o SFX1
GROUPBY == "groupby_columns"
CATEGORICAL_X == "categorical_x"

\* the confidence intervals of a row: two-sided, or one-sided with the open
\* side infinite; the adjusted interval is the plain one widened by one
Intervals == {<<NegInf, Fin(1)>>, <<Fin(0), PosInf>>, <<Fin(0), Fin(1)>>}
Widen(x, by) == IF isfinite(x) THEN Fin(x.val + by) ELSE x

\* the rows of a difference table with the given optional columns
ChartRows(hasNH, hasNIM) ==
    { (CI_LOWER :> iv[1]) @@ (CI_UPPER :> iv[2])
      @@ (ADJUSTED_LOWER :> Widen(iv[1], -1)) @@ (ADJUSTED_UPPER :> Widen(iv[2], 1))
      @@ (DIFFERENCE :> Fin(1))
      @@ (IF hasNH THEN (NULL_HYPOTHESIS :> nh) @@ (PREFERENCE :> p) ELSE <<>>)
      @@ (IF hasNIM THEN (NIM :> nim) ELSE <<>>) :
        <<iv, nh, nim, p>> \in
            Intervals
            \X (IF hasNH THEN {NaN, Fin(0)} ELSE {NaN})
            \X (IF hasNIM THEN {NaN, Fin(1)} ELSE {NaN})
            \X (IF hasNH THEN Preferences ELSE {"two-sided"}) }

ChartColumns(hasNH, hasNIM) ==
    {CI_LOWER, CI_UPPER, ADJUSTED_LOWER, ADJUSTED_UPPER, DIFFERENCE,
     LEVEL_1, LEVEL_2, P_VALUE, ADJUSTED_P, REFERENCE_LEVEL_AVG, GROUPBY}
    \cup (IF hasNH THEN {NULL_HYPOTHESIS, PREFERENCE} ELSE {})
    \cup (IF hasNIM THEN {NIM} ELSE {})

\* which of the null_hypothesis and nim columns a table has
ChartSchemas == BOOLEAN \X BOOLEAN

\* the difference tables of n rows with the optional columns f
ChartTables(f, n) ==
    { [columns |-> ChartColumns(f[1], f[2]), rows |-> rs] :
        rs \in [1..n -> ChartRows(f[1], f[2])] }

\* pandas.concat of the named columns, as the set of its values
Numbers(t, cols) ==
    {t.rows[i][c] : i \in DOMAIN t.rows, c \in cols \cap t.columns}

-----------------------------------------------------------------------------
(* confidence_utils: axis_format_precision and to_finite *)

FiniteOf(S) == {x \in S : isfinite(x)}
y_min_of(numbers) ==
    CHOOSE x \in FiniteOf(numbers) : \A y \in FiniteOf(numbers) : x.val <= y.val
y_max_of(numbers) ==
    CHOOSE x \in FiniteOf(numbers) : \A y \in FiniteOf(numbers) : y.val <= x.val

\* the number format axis_format_precision returns: plain or percent
AxisFormat(absolute) == IF absolute THEN "0.00" ELSE "0.00%"

\* axis_format, y_min, y_max = axis_format_precision(numbers, absolute, ...)
axis_format_precision(numbers, absolute) ==
    [axis_format |-> AxisFormat(absolute),
     y_min |-> y_min_of(numbers),
     y_max |-> y_max_of(numbers)]

\* to_finite(series, y_min, y_max), on one value of the series
to_finite(x, y_min, y_max) ==
    IF x = PosInf THEN y_max
    ELSE IF x = NegInf THEN y_min
    ELSE x

-----------------------------------------------------------------------------
(* add_ci_to_chart_datasources *)

\* a data source of chart.data: the renderer's name, the keys of its dict,
\* the row labels under its "index" key, and the keys
\* add_ci_to_chart_datasources has assigned
Source(name, keys, index) ==
    [name |-> name, keys |-> keys, index |-> index, written |-> {}]

\* the table add_tools reads: its columns and its length (row labels 1..len)
ToolsTable(columns, len) == [columns |-> columns, len |-> len]

\* group_col = "color" if ordinal and "color" in df.columns else "categorical_x"
group_col(ord, t) == IF ord /\ "color" \in t.columns THEN "color" ELSE CATEGORICAL_X

\* df[col][data["index"]] for every col of cols: a missing key, column or row
\* label raises KeyError
Readable(d, t, cols) ==
    /\ "index" \in d.keys
    /\ cols \subseteq t.columns
    /\ \A i \in d.index : i \in 1..t.len

\* if center_name in data.keys() or NULL_HYPOTHESIS in data.keys()
FirstBlock(d, center) == center \in d.keys \/ NULL_HYPOTHESIS \in d.keys
\* the assignments data[key] = np.array(df[column][index]) of the first
\* block, in order, as <<key, column>>
FirstAssignments(t, ord, adjusted) ==
    << <<LOWER(adjusted), LOWER(adjusted)>>,
       <<UPPER(adjusted), UPPER(adjusted)>>,
       <<"color", group_col(ord, t)>> >>
FirstColumns(t, ord, adjusted) == {LOWER(adjusted), UPPER(adjusted), group_col(ord, t)}
FirstKeys(adjusted) == {LOWER(adjusted), UPPER(adjusted), "color"}

\* if DIFFERENCE in data.keys() or NULL_HYPOTHESIS in data.keys()
SecondBlock(d) == DIFFERENCE \in d.keys \/ NULL_HYPOTHESIS \in d.keys
\* the assignments of the second block, in order, as <<key, column>>
SecondAssignments(t) ==
    << <<"reference_level", LEVEL_1>>,
       <<DIFFERENCE, DIFFERENCE>>,
       <<"p_value", P_VALUE>>,
       <<"adjusted_p", ADJUSTED_P>>,
       <<"reference_level_avg", REFERENCE_LEVEL_AVG>> >>
    \o (IF NULL_HYPOTHESIS \in t.columns
        THEN << <<"null_hyp", NULL_HYPOTHESIS>> >> ELSE <<>>)
SecondColumns == {LEVEL_1, DIFFERENCE, P_VALUE, ADJUSTED_P, REFERENCE_LEVEL_AVG}
SecondKeys(t) ==
    {"reference_level", DIFFERENCE, "p_value", "adjusted_p", "reference_level_avg"}
    \cup (IF NULL_HYPOTHESIS \in t.columns THEN {"null_hyp"} ELSE {})

\* a block that has run through: its keys are assigned
Assigned(d, keys) ==
    [d EXCEPT !.keys = @ \cup keys, !.written = @ \cup keys]

\* the number of assignments carried out before one raises, counting from the
\* k-th: the first whose column df does not have raises
RECURSIVE assigned_from(_, _, _)
assigned_from(k, t, assignments) ==
    IF k > Len(assignments) \/ assignments[k][2] \notin t.columns
    THEN k - 1
    ELSE assigned_from(k + 1, t, assignments)

\* a block that raises: the assignments before the one that raised are done;
\* without the "index" key, or with a row label df does not have, none is
Raised(d, t, assignments) ==
    IF ~Readable(d, t, {}) THEN d
    ELSE Assigned(d, {assignments[k][1] :
                        k \in 1..assigned_from(1, t, assignments)})

\* one pass of the loop body over one data source: the source as the body
\* leaves it, and whether the body raised
LoopBody(d, t, center, ord, adjusted) ==
    LET first == FirstBlock(d, center)
        firstOk == Readable(d, t, FirstColumns(t, ord, adjusted))
        d1 == IF first /\ firstOk THEN Assigned(d, FirstKeys(adjusted)) ELSE d
        second == SecondBlock(d1)
        secondOk == Readable(d1, t, SecondColumns)
        d2 == IF second /\ secondOk THEN Assigned(d1, SecondKeys(t)) ELSE d1
    IN  IF first /\ ~firstOk
        THEN [error |-> "KeyError",
              data |-> Raised(d, t, FirstAssignments(t, ord, adjusted))]
        ELSE IF second /\ ~secondOk
        THEN [error |-> "KeyError", data |-> Raised(d1, t, SecondAssignments(t))]
        ELSE [error |-> "none", data |-> d2]

\* for data in chart.data: ...   (from the i-th source on)
RECURSIVE add_ci_from(_, _, _, _, _, _)
add_ci_from(i, data, t, center, ord, adjusted) ==
    IF i > Len(data) THEN [error |-> "none", data |-> data]
    ELSE LET r == LoopBody(data[i], t, center, ord, adjusted)
             next == [data EXCEPT ![i] = r.data]
         IN IF r.error # "none" THEN [error |-> r.error, data |-> next]
            ELSE add_ci_from(i + 1, next, t, center, ord, adjusted)

add_ci_to_chart_datasources(data, t, center, ord, adjusted) ==
    add_ci_from(1, data, t, center, ord, adjusted)

-----------------------------------------------------------------------------
(* add_tools *)

ordinal_tool_tip(ord, ogc) == IF ~ord THEN <<>> ELSE << <<ogc, "@" \o ogc>> >>

\* a plausible slip: the adjusted p-value shown as soon as there is a row
p_value_tool_tip_any_row(t, center) ==
    IF center = DIFFERENCE
    THEN << <<"p-value", "@p_value{0.0000}">> >>
         \o (IF t.len > 0 THEN << <<"adjusted p-value", "@adjusted_p{0.0000}">> >> ELSE <<>>)
    ELSE <<>>

p_value_tool_tip(t, center) ==
    IF center = DIFFERENCE
    THEN << <<"p-value", "@p_value{0.0000}">> >>
         \o (IF t.len > 1 THEN << <<"adjusted p-value", "@adjusted_p{0.0000}">> >> ELSE <<>>)
    ELSE <<>>

nim_tool_tip(t, fmt) ==
    IF NULL_HYPOTHESIS \in t.columns
    THEN << <<"null hypothesis", "@null_hyp{" \o fmt \o "}">> >>
    ELSE <<>>

\* a plausible slip: the entry conditioned on the average's column
reference_level_tool_tip_avg(t, fmt_ref) ==
    IF REFERENCE_LEVEL_AVG \in t.columns
    THEN << <<"reference level",
              "@reference_level: @reference_level_avg{" \o fmt_ref \o "}">> >>
    ELSE <<>>

reference_level_tool_tip(t, fmt_ref) ==
    IF LEVEL_1 \in t.columns
    THEN << <<"reference level",
              "@reference_level: @reference_level_avg{" \o fmt_ref \o "}">> >>
    ELSE <<>>

\* a plausible slip: the center statistic shown without its number format
center_tool_tip_unformatted(center, fmt) == <<center, "@" \o center>>

center_tool_tip(center, fmt) == <<center, "@" \o center \o "{" \o fmt \o "}">>

interval_tool_tip(adjusted, fmt) ==
    <<(IF adjusted THEN "adjusted " ELSE "") \o "confidence interval",
      "(@{" \o LOWER(adjusted) \o "}{" \o fmt \o "}, @{" \o UPPER(adjusted)
        \o "}{" \o fmt \o "})">>

\* a plausible slip: the null hypothesis entry concatenated before the p-values
Tooltips_nim_first(t, center, ord, adjusted, fmt, fmt_ref, ogc) ==
    << <<"group", "@color">> >>
    \o reference_level_tool_tip(t, fmt_ref)
    \o ordinal_tool_tip(ord, ogc)
    \o << center_tool_tip(center, fmt) >>
    \o << interval_tool_tip(adjusted, fmt) >>
    \o nim_tool_tip(t, fmt)
    \o p_value_tool_tip(t, center)

\* tooltips = [("group", "@color")] + reference_level_tool_tip + ordinal_tool_tip
\*            + [center] + [confidence interval] + p_value_tool_tip + nim_tool_tip
Tooltips(t, center, ord, adjusted, fmt, fmt_ref, ogc) ==
    << <<"group", "@color">> >>
    \o reference_level_tool_tip(t, fmt_ref)
    \o ordinal_tool_tip(ord, ogc)
    \o << center_tool_tip(center, fmt) >>
    \o << interval_tool_tip(adjusted, fmt) >>
    \o p_value_tool_tip(t, center)
    \o nim_tool_tip(t, fmt)

\* the whole of add_tools: the data sources as it leaves them, the tooltips
\* handed to HoverTool, and the exception it raised, if any
add_tools(data, t, center, absolute, ord, adjusted, ogc) ==
    LET ci == add_ci_to_chart_datasources(data, t, center, ord, adjusted)
        fmt == AxisFormat(absolute)
        fmt_ref == AxisFormat(TRUE)
        raised == [error |-> "KeyError", chart_data |-> ci.data, tooltips |-> <<>>,
                   axis_format |-> "none", axis_format_reference_level |-> "none"]
    IN  IF ci.error # "none" THEN raised
        ELSE IF ~({LOWER(adjusted), center, UPPER(adjusted)} \subseteq t.columns)
        THEN raised
        ELSE [error |-> "none", chart_data |-> ci.data,
              tooltips |-> Tooltips(t, center, ord, adjusted, fmt, fmt_ref, ogc),
              axis_format |-> fmt, axis_format_reference_level |-> fmt_ref]

-----------------------------------------------------------------------------
(* _categorical_difference_chart *)

\* a plausible slip: the classifier is fed the table as given, not the
\* clamped copy
ClampedRows_as_given(t, adjusted, y_min, y_max) == t.rows

\* df = difference_df.assign(LOWER=to_finite(...)).assign(UPPER=to_finite(...))
ClampedRows(t, adjusted, y_min, y_max) ==
    [i \in DOMAIN t.rows |->
        [t.rows[i] EXCEPT ![LOWER(adjusted)] = to_finite(@, y_min, y_max),
                          ![UPPER(adjusted)] = to_finite(@, y_min, y_max)]]

\* a plausible slip: the rows are filtered on the column the guard names
DashIndex_null_hypothesis(rows) ==
    {i \in DOMAIN rows : ~isna(rows[i][NULL_HYPOTHESIS])}

\* df[~df[NIM].isna()]: the labels of the rows kept
DashIndex(rows) == {i \in DOMAIN rows : ~isna(rows[i][NIM])}

\* the whole of _categorical_difference_chart on table t
categorical_difference_chart(t, absolute, adjusted, ogc) ==
    LET L == LOWER(adjusted)
        U == UPPER(adjusted)
        afp == axis_format_precision(
                   Numbers(t, {L, DIFFERENCE, U, NULL_HYPOTHESIS}), absolute)
        rows == ClampedRows(t, adjusted, afp.y_min, afp.y_max)
        columns == t.columns \cup {CATEGORICAL_X}
        n == Len(t.rows)
        center == Source("center", columns \cup {"index"}, 1..n)
        hasNH == NULL_HYPOTHESIS \in columns
        \* df[NIM] on a table without that column
        keyError == hasNH /\ NIM \notin columns
        \* NULL_HYPOTHESIS in df.columns and df[NIM].notna().any()
        drawn == hasNH /\ ~keyError /\ DashIndex(rows) # {}
        dash == IF drawn
                THEN [i \in DashIndex(rows) |->
                        [row |-> rows[i],
                         color_column |-> color_column(rows[i], L, U)]]
                ELSE <<>>
        nim == Source("nim", columns \cup {"index", "color_column"}, DashIndex(rows))
        data == IF drawn THEN <<center, nim>> ELSE <<center>>
        tools == add_tools(data, ToolsTable(columns, n), DIFFERENCE, absolute,
                           FALSE, adjusted, ogc)
    IN  IF keyError
        THEN [error |-> "KeyError", dash_source |-> <<>>, chart_data |-> <<center>>,
              tooltips |-> <<>>, axis_format |-> "none",
              axis_format_reference_level |-> "none"]
        ELSE [error |-> tools.error, dash_source |-> dash,
              chart_data |-> tools.chart_data, tooltips |-> tools.tooltips,
              axis_format |-> tools.axis_format,
              axis_format_reference_level |-> tools.axis_format_reference_level]

-----------------------------------------------------------------------------
(* The tables add_tools is called with directly *)

Centers == {POINT_ESTIMATE, DIFFERENCE}
OptionalColumns ==
    {NULL_HYPOTHESIS, P_VALUE, ADJUSTED_P, LEVEL_1, REFERENCE_LEVEL_AVG, "color",
     DIFFERENCE}

\* the bound columns and the center column are always there
ToolsColumns(center) ==
    { {CI_LOWER, CI_UPPER, ADJUSTED_LOWER, ADJUSTED_UPPER, center, CATEGORICAL_X}
      \cup opt : opt \in SUBSET OptionalColumns }

\* the charts add_tools is called with: no hovered renderer, the "center"
\* renderer, alone or after a renderer whose source holds none of the df's
\* columns, or the "center" and the "nim" renderer, each drawn from the table
ToolsCharts(t) ==
    LET center == Source("center", t.columns \cup {"index"}, 1..t.len)
        nim == Source("nim", t.columns \cup {"index"}, 1..t.len)
        other == Source("other", {"index", "x", "y"}, 1..t.len)
    IN  {<<>>, <<center>>, <<other, center>>}
        \cup (IF NULL_HYPOTHESIS \in t.columns THEN {<<center, nim>>} ELSE {})

-----------------------------------------------------------------------------
(* chartgrid.ChartGrid *)

\* the classes of the objects a grid can hold: the two chart classes, a
\* subclass of each, and a class of neither library
ChartClasses ==
    {"ChartifyChart", "BokehFigure", "ChartifyChartSubclass", "BokehFigureSubclass",
     "object"}
Formats == {"html", "png", "svg"}

\* a plausible slip: the chart's own show called without the format
show_chart_default_format(i, class, format) ==
    IF class = "ChartifyChart"
    THEN << [chart |-> i, call |-> "chart.show", format |-> "html"] >>
    ELSE IF class = "BokehFigure"
    THEN IF format = "png"
         THEN << [chart |-> i, call |-> "get_screenshot_as_png", format |-> "none"],
                 [chart |-> i, call |-> "display", format |-> "none"] >>
         ELSE << [chart |-> i, call |-> "show", format |-> "none"] >>
    ELSE << [chart |-> i, call |-> "print", format |-> "none"] >>

\* the body of the loop of ChartGrid.show for the i-th chart, of the given
\* class (type(chart)): the calls it makes
show_chart(i, class, format) ==
    IF class = "ChartifyChart"
    THEN << [chart |-> i, call |-> "chart.show", format |-> format] >>
    ELSE IF class = "BokehFigure"
    THEN IF format = "png"
         THEN << [chart |-> i, call |-> "get_screenshot_as_png", format |-> "none"],
                 [chart |-> i, call |-> "display", format |-> "none"] >>
         ELSE << [chart |-> i, call |-> "show", format |-> "none"] >>
    ELSE << [chart |-> i, call |-> "print", format |-> "none"] >>

\* for chart in self.charts: ...   (from the i-th chart on)
RECURSIVE show_from(_, _, _)
show_from(i, cs, format) ==
    IF i > Len(cs) THEN <<>>
    ELSE show_chart(i, cs[i], format) \o show_from(i + 1, cs, format)

\* ChartGrid.show(format)
show(cs, format) == show_from(1, cs, format)

-----------------------------------------------------------------------------
(* plot_difference, plot_differences, plot_multiple_difference *)

\* a groupby argument: None, one column name, or a list of column names
None == [kind |-> "none", names |-> <<>>]
Str(name) == [kind |-> "str", names |-> <<name>>]
List(names) == [kind |-> "list", names |-> names]

\* listify(column): the list of the names
listify(g) == g.names

\* de_list_if_length_one(columns): a list of one name becomes that name
de_list_if_length_one(g) ==
    IF g.kind = "list" /\ Len(g.names) = 1 THEN Str(g.names[1]) ELSE g

Range(s) == {s[k] : k \in DOMAIN s}

\* get_remaning_groups(all_groups, some_groups): the groups of the list that
\* are not the ordinal column
get_remaning_groups(all_groups, some_groups) ==
    SelectSeq(all_groups, LAMBDA c : c # some_groups)

\* the levels of the rows of a table in one group column
Levelings(n) == [1..n -> 1..MaxLevel]

\* the difference tables of n rows, labelled 1..n: each row has its label
\* and its level in each group column
PlotTables(n) ==
    { [i \in 1..n |-> [label |-> i, country |-> c[i], platform |-> p[i]]] :
        c \in Levelings(n), p \in Levelings(n) }

\* the groupby arguments the methods are called with
GroupbyArgs ==
    {None, Str("country"), Str("date"), List(<<>>), List(<<"country">>),
     List(<<"date">>), List(<<"country", "date">>),
     List(<<"country", "platform">>), List(<<"platform", "country">>)}

\* tuple order of the group keys
LexLess(a, b) ==
    \E k \in DOMAIN a : a[k] < b[k] /\ \A j \in 1..(k - 1) : a[j] = b[j]

KeyOf(r, columns) == [k \in DOMAIN columns |-> r[columns[k]]]

RECURSIVE sorted_keys(_)
sorted_keys(keys) ==
    IF keys = {} THEN <<>>
    ELSE LET m == CHOOSE a \in keys : \A b \in keys \ {a} : LexLess(a, b)
         IN  <<m>> \o sorted_keys(keys \ {m})

\* for level_name, level_df in df.groupby(columns): the pairs in iteration
\* order, keys ascending, each level_df keeping the order of df
DataFrame_groupby(df, columns) ==
    LET ks == sorted_keys({KeyOf(df[i], columns) : i \in DOMAIN df})
    IN  [k \in DOMAIN ks |->
            [level_name |-> ks[k],
             level_df |-> SelectSeq(df, LAMBDA r : KeyOf(r, columns) = ks[k])]]

\* a chart: the method that drew it and the table it was drawn from
Chart(plot, df) == [plot |-> plot, df |-> df]

\* ch.charts += ...charts, once per element
RECURSIVE extend(_)
extend(grids) ==
    IF grids = <<>> THEN <<>> ELSE Head(grids) \o extend(Tail(grids))

plot_differece_group(df, g, ogc) ==
    IF ogc \in Range(listify(g))
    THEN << Chart("_ordinal_difference_plot", df) >>
    ELSE << Chart("_categorical_difference_plot", df) >>

plot_differences_group(df, g, ogc) ==
    IF ogc \in Range(listify(g))
    THEN << Chart("_ordinal_difference_plot", df) >>
    ELSE << Chart("_categorical_difference_plot", df) >>

plot_multiple_difference_group(df, g, ogc) ==
    IF ogc \in Range(listify(g))
    THEN << Chart("_ordinal_multiple_difference_plot", df) >>
    ELSE << Chart("_categorical_multiple_difference_plot", df) >>

\* a plausible slip: "and" where the code has "or"
plot_difference_and(df, g, split, ogc) ==
    LET categorical_groups == get_remaning_groups(listify(g), ogc)
        groups == DataFrame_groupby(df, categorical_groups)
    IN  IF Len(categorical_groups) = 0 /\ ~split
        THEN plot_differece_group(df, g, ogc)
        ELSE extend([k \in DOMAIN groups |->
                        plot_differece_group(groups[k].level_df, g, ogc)])

plot_difference(df, g, split, ogc) ==
    LET categorical_groups == get_remaning_groups(listify(g), ogc)
        groups == DataFrame_groupby(df, categorical_groups)
    IN  IF Len(categorical_groups) = 0 \/ ~split
        THEN plot_differece_group(df, g, ogc)
        ELSE extend([k \in DOMAIN groups |->
                        plot_differece_group(groups[k].level_df, g, ogc)])

plot_differences(df, g, split, ogc) ==
    LET categorical_groups == get_remaning_groups(listify(g), ogc)
        groups == DataFrame_groupby(df, categorical_groups)
    IN  IF Len(categorical_groups) = 0 \/ ~split
        THEN plot_differences_group(df, g, ogc)
        ELSE extend([k \in DOMAIN groups |->
                        plot_differences_group(groups[k].level_df, g, ogc)])

plot_multiple_difference(df, g, split, ogc) ==
    LET categorical_groups == get_remaning_groups(listify(g), ogc)
        g1 == de_list_if_length_one(g)
        groups == DataFrame_groupby(df, categorical_groups)
    IN  IF Len(categorical_groups) = 0 \/ ~split
        THEN plot_multiple_difference_group(df, g1, ogc)
        ELSE extend([k \in DOMAIN groups |->
                        plot_multiple_difference_group(groups[k].level_df, g1, ogc)])

-----------------------------------------------------------------------------
(* Actions *)

\* df.apply(lambda row: ..., axis=1) on one row
Classify ==
    /\ pc = "idle"
    /\ \E adjusted \in BOOLEAN :
        \E r \in ClassifierRows(adjusted) :
            /\ use_adjusted_intervals' = adjusted
            /\ row' = r
            /\ color' = color_column(r, LOWER(adjusted), UPPER(adjusted))
    /\ pc' = "color_column"
    /\ UNCHANGED <<ordinal_group_column, difference_df, dash_source, tools_df,
                   center_name, ordinal, axis_format,
                   axis_format_reference_level, chart_data, tooltips, error,
                   grid_vars, plot_vars>>


\* one call of _categorical_difference_chart
CategoricalDifferenceChart ==
    /\ pc = "idle"
    /\ \E f \in ChartSchemas, n \in 1..MaxRows, adjusted \in BOOLEAN,
          absolute \in BOOLEAN :
      \E t \in ChartTables(f, n) :
        LET r == categorical_difference_chart(t, absolute, adjusted,
                                              ordinal_group_column)
        IN  /\ difference_df' = t
            /\ use_adjusted_intervals' = adjusted
            /\ dash_source' = r.dash_source
            /\ tools_df' = ToolsTable(t.columns \cup {CATEGORICAL_X}, Len(t.rows))
            /\ chart_data' = r.chart_data
            /\ tooltips' = r.tooltips
            /\ axis_format' = r.axis_format
            /\ axis_format_reference_level' = r.axis_format_reference_level
            /\ error' = r.error
    /\ center_name' = DIFFERENCE
    /\ ordinal' = FALSE
    /\ pc' = "_categorical_difference_chart"
    /\ UNCHANGED <<ordinal_group_column, row, color, grid_vars, plot_vars>>

\* one direct call of add_tools
AddTools ==
    /\ pc = "idle"
    /\ \E center \in Centers, ord \in BOOLEAN, adjusted \in BOOLEAN,
          absolute \in BOOLEAN, len \in 0..MaxLen :
        \E columns \in ToolsColumns(center) :
            \E data \in ToolsCharts(ToolsTable(columns, len)) :
                LET t == ToolsTable(columns, len)
                    r == add_tools(data, t, center, absolute, ord, adjusted,
                                   ordinal_group_column)
                IN  /\ tools_df' = t
                    /\ center_name' = center
                    /\ ordinal' = ord
                    /\ use_adjusted_intervals' = adjusted
                    /\ chart_data' = r.chart_data
                    /\ tooltips' = r.tooltips
                    /\ axis_format' = r.axis_format
                    /\ axis_format_reference_level' = r.axis_format_reference_level
                    /\ error' = r.error
    /\ pc' = "add_tools"
    /\ UNCHANGED <<ordinal_group_column, row, color, difference_df, dash_source,
                   grid_vars, plot_vars>>

\* ChartGrid(charts).show(format)
Show ==
    /\ pc = "idle"
    /\ \E n \in 0..MaxCharts, format \in Formats :
        \E cs \in [1..n -> ChartClasses] :
            /\ charts' = cs
            /\ show_format' = format
            /\ shown' = show(cs, format)
    /\ pc' = "show"
    /\ UNCHANGED <<ordinal_group_column, row, color, difference_df,
                   use_adjusted_intervals, dash_source, tools_df, center_name,
                   ordinal, axis_format, axis_format_reference_level, chart_data,
                   tooltips, error, plot_vars>>

\* one call of plot_difference
PlotDifference ==
    /\ pc = "idle"
    /\ \E n \in 1..MaxPlotRows, g \in GroupbyArgs, split \in BOOLEAN :
        \E t \in PlotTables(n) :
            /\ plot_df' = t
            /\ groupby' = g
            /\ split_plot_by_groups' = split
            /\ plot_charts' = plot_difference(t, g, split, ordinal_group_column)
    /\ pc' = "plot_difference"
    /\ UNCHANGED <<ordinal_group_column, row, color, difference_df,
                   use_adjusted_intervals, dash_source, tools_df, center_name,
                   ordinal, axis_format, axis_format_reference_level,
                   chart_data, tooltips, error, grid_vars>>

\* one call of plot_differences
PlotDifferences ==
    /\ pc = "idle"
    /\ \E n \in 1..MaxPlotRows, g \in GroupbyArgs, split \in BOOLEAN :
        \E t \in PlotTables(n) :
            /\ plot_df' = t
            /\ groupby' = g
            /\ split_plot_by_groups' = split
            /\ plot_charts' = plot_differences(t, g, split, ordinal_group_column)
    /\ pc' = "plot_differences"
    /\ UNCHANGED <<ordinal_group_column, row, color, difference_df,
                   use_adjusted_intervals, dash_source, tools_df, center_name,
                   ordinal, axis_format, axis_format_reference_level,
                   chart_data, tooltips, error, grid_vars>>

\* one call of plot_multiple_difference
PlotMultipleDifference ==
    /\ pc = "idle"
    /\ \E n \in 1..MaxPlotRows, g \in GroupbyArgs, split \in BOOLEAN :
        \E t \in PlotTables(n) :
            /\ plot_df' = t
            /\ groupby' = g
            /\ split_plot_by_groups' = split
            /\ plot_charts' = plot_multiple_difference(t, g, split, ordinal_group_column)
    /\ pc' = "plot_multiple_difference"
    /\ UNCHANGED <<ordinal_group_column, row, color, difference_df,
                   use_adjusted_intervals, dash_source, tools_df, center_name,
                   ordinal, axis_format, axis_format_reference_level,
                   chart_data, tooltips, error, grid_vars>>

Next ==
    \/ Classify
    \/ CategoricalDifferenceChart
    \/ AddTools
    \/ Show
    \/ PlotDifference
    \/ PlotDifferences
    \/ PlotMultipleDifference

Spec == Init /\ [][Next]_vars

-----------------------------------------------------------------------------
(* The significance classifier *)

classified == pc = "color_column"
charted == pc = "_categorical_difference_chart" /\ error = "none"
L == LOWER(use_adjusted_intervals)
U == UPPER(use_adjusted_intervals)

\* C1: for a row whose preference is "increase" the classifier returns "red"
\* exactly when the lower bound is below the null hypothesis; equal values
\* give "green", and no other upper bound changes the result. The same holds
\* of every row the chart classifies.
C1_IncreaseRedIffLowerBelowNull ==
    /\ (classified /\ row[PREFERENCE] = "increase") =>
        /\ color = "red" <=> Lt(row[L], row[NULL_HYPOTHESIS])
        /\ (~isna(row[L]) /\ row[L] = row[NULL_HYPOTHESIS]) => color = "green"
        /\ \A u \in Floats : color_column([row EXCEPT ![U] = u], L, U) = color
    /\ charted =>
        \A i \in DOMAIN dash_source :
            dash_source[i].row[PREFERENCE] = "increase" =>
                (dash_source[i].color_column = "red"
                    <=> Lt(dash_source[i].row[L], dash_source[i].row[NULL_HYPOTHESIS]))

\* an "increase" row whose lower bound equals a finite null hypothesis, below
\* its upper bound, has been classified "green"
C1_Witness ==
    /\ classified
    /\ row[PREFERENCE] = "increase"
    /\ isfinite(row[L])
    /\ row[L] = row[NULL_HYPOTHESIS]
    /\ Lt(row[NULL_HYPOTHESIS], row[U])
    /\ color = "green"

\* C2: for a row whose preference is "decrease" the classifier returns "red"
\* exactly when the null hypothesis is below the upper bound; equal values
\* give "green", and no other lower bound changes the result. The same holds
\* of every row the chart classifies.
C2_DecreaseRedIffNullBelowUpper ==
    /\ (classified /\ row[PREFERENCE] = "decrease") =>
        /\ color = "red" <=> Lt(row[NULL_HYPOTHESIS], row[U])
        /\ (~isna(row[U]) /\ row[U] = row[NULL_HYPOTHESIS]) => color = "green"
        /\ \A l \in Floats : color_column([row EXCEPT ![L] = l], L, U) = color
    /\ charted =>
        \A i \in DOMAIN dash_source :
            dash_source[i].row[PREFERENCE] = "decrease" =>
                (dash_source[i].color_column = "red"
                    <=> Lt(dash_source[i].row[NULL_HYPOTHESIS], dash_source[i].row[U]))

\* a "decrease" row whose lower bound is below the null hypothesis and whose
\* upper bound equals it has been classified "green"
C2_Witness ==
    /\ classified
    /\ row[PREFERENCE] = "decrease"
    /\ isfinite(row[U])
    /\ row[U] = row[NULL_HYPOTHESIS]
    /\ Lt(row[L], row[NULL_HYPOTHESIS])
    /\ color = "green"

\* C3: a row whose preference is neither "increase" nor "decrease" is
\* classified "green" whatever its bounds and null hypothesis, and every
\* classification is one of "red" and "green".
C3_OtherPreferenceGreen ==
    /\ classified =>
        /\ color \in {"red", "green"}
        /\ row[PREFERENCE] \notin {"increase", "decrease"} => color = "green"
    /\ charted =>
        \A i \in DOMAIN dash_source :
            /\ dash_source[i].color_column \in {"red", "green"}
            /\ dash_source[i].row[PREFERENCE] \notin {"increase", "decrease"}
                => dash_source[i].color_column = "green"

\* a two-sided row whose null hypothesis lies strictly inside its interval
\* has been classified "green"
C3_Witness ==
    /\ classified
    /\ row[PREFERENCE] = "two-sided"
    /\ Lt(row[L], row[NULL_HYPOTHESIS])
    /\ Lt(row[NULL_HYPOTHESIS], row[U])
    /\ color = "green"

-----------------------------------------------------------------------------
(* The rows _categorical_difference_chart classifies *)

Rows == difference_df.rows
Defined(i, column) == column \in difference_df.columns /\ ~isna(Rows[i][column])

\* C4 as claimed: the rows that receive a label are exactly the rows whose
\* null_hypothesis value is defined.
C4_ClassifiedIffNullHypothesisDefined ==
    charted =>
        DOMAIN dash_source = {i \in DOMAIN Rows : Defined(i, NULL_HYPOTHESIS)}

\* C4 as amended: in a table with a null_hypothesis column the rows that
\* receive a label are exactly the rows whose nim value is defined, whatever
\* their null_hypothesis value; in a table without that column no row is.
C4_ClassifiedIffNimDefined ==
    charted =>
        DOMAIN dash_source =
            IF NULL_HYPOTHESIS \in difference_df.columns
            THEN {i \in DOMAIN Rows : Defined(i, NIM)}
            ELSE {}

\* a chart of two rows: the first has a null hypothesis and no nim and gets no
\* label, the second has a nim and no null hypothesis and gets one
C4_Witness ==
    /\ charted
    /\ Len(Rows) = 2
    /\ Defined(1, NULL_HYPOTHESIS) /\ ~Defined(1, NIM)
    /\ ~Defined(2, NULL_HYPOTHESIS) /\ Defined(2, NIM)
    /\ DOMAIN dash_source = {2}

-----------------------------------------------------------------------------
(* Clamping before classification *)

chart_numbers == Numbers(difference_df, {L, DIFFERENCE, U, NULL_HYPOTHESIS})

\* C9 as claimed: every value the classifier compares for a row (lower bound,
\* upper bound, null hypothesis) is finite when it is compared.
C9_ComparedValuesFinite ==
    charted =>
        \A i \in DOMAIN dash_source :
            /\ isfinite(dash_source[i].row[L])
            /\ isfinite(dash_source[i].row[U])
            /\ isfinite(dash_source[i].row[NULL_HYPOTHESIS])

\* C9 as amended: the lower and the upper bound the classifier compares are
\* the table's bounds passed through to_finite, finite and within
\* [y_min, y_max]; the null hypothesis is compared as the table gives it.
C9_BoundsClampedNullHypothesisAsGiven ==
    charted =>
        \A i \in DOMAIN dash_source :
            /\ isfinite(dash_source[i].row[L])
            /\ isfinite(dash_source[i].row[U])
            /\ Le(y_min_of(chart_numbers), dash_source[i].row[L])
            /\ Le(dash_source[i].row[U], y_max_of(chart_numbers))
            /\ dash_source[i].row[NULL_HYPOTHESIS] = Rows[i][NULL_HYPOTHESIS]

\* a classified row whose lower bound was infinite in the table and is finite
\* where it is compared, next to a null hypothesis that is not finite
C9_Witness ==
    /\ charted
    /\ \E i \in DOMAIN dash_source :
        /\ Rows[i][L] = NegInf
        /\ isfinite(dash_source[i].row[L])
        /\ ~isfinite(dash_source[i].row[NULL_HYPOTHESIS])

-----------------------------------------------------------------------------
(* The tooltip list *)

tooled == pc \in {"add_tools", "_categorical_difference_chart"} /\ error = "none"
Label(i) == tooltips[i][1]
Labels == {Label(i) : i \in DOMAIN tooltips}
Positions(label) == {i \in DOMAIN tooltips : Label(i) = label}
IntervalLabels == {"confidence interval", "adjusted confidence interval"}

\* the place of an entry in the order: group, reference level, ordinal axis
\* value, center statistic, confidence interval, p-value, adjusted p-value,
\* null hypothesis
Rank(label) ==
    CASE label = "group" -> 1
      [] label = "reference level" -> 2
      [] label = ordinal_group_column -> 3
      [] label = center_name -> 4
      [] label \in IntervalLabels -> 5
      [] label = "p-value" -> 6
      [] label = "adjusted p-value" -> 7
      [] label = "null hypothesis" -> 8
      [] OTHER -> 0

\* C5: the tooltip list is a subsequence of the order group, reference level,
\* ordinal axis value, center statistic, confidence interval, p-value,
\* adjusted p-value, null hypothesis: every entry is one of these, and the
\* entries' places in that order strictly increase along the list.
C5_TooltipsInFixedOrder ==
    tooled =>
        /\ \A i \in DOMAIN tooltips : Rank(Label(i)) > 0
        /\ \A i, j \in DOMAIN tooltips : i < j => Rank(Label(i)) < Rank(Label(j))

\* a list holding all eight entries has been built
C5_Witness ==
    /\ tooled
    /\ Len(tooltips) = 8
    /\ Label(1) = "group" /\ Label(8) = "null hypothesis"

\* the tooltips the same call builds from other columns, center and axis kind
Alt(columns, center, ord) ==
    Tooltips(ToolsTable(columns, tools_df.len), center, ord, use_adjusted_intervals,
             axis_format, axis_format_reference_level, ordinal_group_column)

Without(s, i) == SubSeq(s, 1, i - 1) \o SubSeq(s, i + 1, Len(s))
OneRemoved(s, t) == \E i \in DOMAIN s : t = Without(s, i)
\* t is s without its one entry of that label
Removed(s, t, label) ==
    /\ Cardinality(Positions(label)) = 1
    /\ \A i \in Positions(label) : t = Without(s, i)

\* C6 as claimed: turning off any one set flag (reference level, ordinal
\* axis, center is a difference, null hypothesis) removes exactly one entry
\* of the list and leaves every other entry as it was.
C6_EachFlagRemovesOneEntry ==
    tooled =>
        /\ LEVEL_1 \in tools_df.columns =>
            OneRemoved(tooltips, Alt(tools_df.columns \ {LEVEL_1}, center_name, ordinal))
        /\ ordinal => OneRemoved(tooltips, Alt(tools_df.columns, center_name, FALSE))
        /\ NULL_HYPOTHESIS \in tools_df.columns =>
            OneRemoved(tooltips, Alt(tools_df.columns \ {NULL_HYPOTHESIS}, center_name, ordinal))
        /\ center_name = DIFFERENCE =>
            OneRemoved(tooltips, Alt(tools_df.columns, POINT_ESTIMATE, ordinal))

NotPValue(e) == e[1] \notin {"p-value", "adjusted p-value"}

\* C6 as amended: with the number formats unchanged, turning off the
\* reference level, the ordinal axis or the null hypothesis removes exactly
\* that flag's entry and nothing else; turning the center statistic from the
\* difference to the point estimate removes the p-value entry and, when the
\* table has more than one row, the adjusted p-value entry, and renames the
\* center entry in place; the group entry is first whatever the flags.
C6_FlagsAndTheirEntries ==
    tooled =>
        /\ tooltips[1] = <<"group", "@color">>
        /\ LEVEL_1 \in tools_df.columns =>
            Removed(tooltips, Alt(tools_df.columns \ {LEVEL_1}, center_name, ordinal),
                    "reference level")
        /\ ordinal =>
            Removed(tooltips, Alt(tools_df.columns, center_name, FALSE),
                    ordinal_group_column)
        /\ NULL_HYPOTHESIS \in tools_df.columns =>
            Removed(tooltips, Alt(tools_df.columns \ {NULL_HYPOTHESIS}, center_name, ordinal),
                    "null hypothesis")
        /\ center_name = DIFFERENCE =>
            LET alt == Alt(tools_df.columns, POINT_ESTIMATE, ordinal)
                kept == SelectSeq(tooltips, NotPValue)
            IN  /\ Len(tooltips) - Len(alt) = (IF tools_df.len > 1 THEN 2 ELSE 1)
                /\ Len(alt) = Len(kept)
                /\ \A i \in DOMAIN alt :
                    IF kept[i][1] = DIFFERENCE
                    THEN alt[i] = center_tool_tip(POINT_ESTIMATE, axis_format)
                    ELSE alt[i] = kept[i]

\* a list built for a difference over several rows with reference level,
\* ordinal axis and null hypothesis all present
C6_Witness ==
    /\ tooled
    /\ center_name = DIFFERENCE
    /\ tools_df.len > 1
    /\ ordinal
    /\ {LEVEL_1, NULL_HYPOTHESIS} \subseteq tools_df.columns
    /\ Len(tooltips) = 8

\* C7: the "p-value" entry is there exactly when the center statistic is the
\* difference, the "adjusted p-value" entry exactly when moreover the table
\* has more than one row, and then it comes right after "p-value".
C7_PValueEntries ==
    tooled =>
        /\ "p-value" \in Labels <=> center_name = DIFFERENCE
        /\ "adjusted p-value" \in Labels <=> (center_name = DIFFERENCE /\ tools_df.len > 1)
        /\ \A i \in Positions("p-value") :
            "adjusted p-value" \in Labels =>
                i + 1 \in DOMAIN tooltips /\ Label(i + 1) = "adjusted p-value"

\* a list built for a difference over exactly one row: "p-value" without
\* "adjusted p-value"
C7_Witness ==
    /\ tooled
    /\ center_name = DIFFERENCE
    /\ tools_df.len = 1
    /\ "p-value" \in Labels
    /\ "adjusted p-value" \notin Labels

\* C8: add_tools completes whichever of the optional columns (null
\* hypothesis, p-value, adjusted p-value, level_1 and its average) are
\* absent, for either center statistic, on a table that has the bound, center
\* and difference columns.
C8_AbsentOptionalColumnsNeverFatal ==
    (pc = "add_tools" /\ DIFFERENCE \in tools_df.columns) => error = "none"

\* C10: no reference level, no ordinal axis, center statistic "difference",
\* 5 rows, a null hypothesis, unadjusted intervals, number format F: the list
\* is group (@color), difference (@difference{F}), confidence interval,
\* p-value, adjusted p-value, null hypothesis, in this order.
C10_ExampleTooltips ==
    ( /\ tooled
      /\ LEVEL_1 \notin tools_df.columns
      /\ ~ordinal
      /\ center_name = "difference"
      /\ tools_df.len = 5
      /\ NULL_HYPOTHESIS \in tools_df.columns
      /\ ~use_adjusted_intervals )
    =>  /\ [i \in DOMAIN tooltips |-> Label(i)] =
            <<"group", "difference", "confidence interval", "p-value",
              "adjusted p-value", "null hypothesis">>
        /\ tooltips[1] = <<"group", "@color">>
        /\ tooltips[2] = <<"difference", "@difference{" \o axis_format \o "}">>

\* that call has returned, with the percent format
C10_Witness ==
    /\ pc = "add_tools" /\ error = "none"
    /\ LEVEL_1 \notin tools_df.columns
    /\ ~ordinal
    /\ center_name = "difference"
    /\ tools_df.len = 5
    /\ NULL_HYPOTHESIS \in tools_df.columns
    /\ ~use_adjusted_intervals
    /\ axis_format = "0.00%"
    /\ Len(tooltips) = 6

-----------------------------------------------------------------------------
(* ChartGrid.show *)

displayed == pc = "show"
CallsFor(i) == SelectSeq(shown, LAMBDA c : c.chart = i)
CallNames(i) == [k \in DOMAIN CallsFor(i) |-> CallsFor(i)[k].call]

\* the library an object's class belongs to
Library(class) ==
    CASE class \in {"ChartifyChart", "ChartifyChartSubclass"} -> "chartify"
      [] class \in {"BokehFigure", "BokehFigureSubclass"} -> "bokeh"
      [] OTHER -> "none"

\* C11: show() visits every chart of the grid once, in list order; every
\* Chartify chart and every Bokeh figure, subclasses included, is rendered by
\* its library's call, and an object of another type only gets the message,
\* the charts after it being rendered all the same.
C11_ShowRendersAllCharts ==
    displayed =>
        /\ \A k \in DOMAIN shown : k > 1 => shown[k - 1].chart <= shown[k].chart
        /\ \A i \in DOMAIN charts :
            CASE Library(charts[i]) = "chartify" -> CallNames(i) = <<"chart.show">>
              [] Library(charts[i]) = "bokeh" ->
                    CallNames(i) \in {<<"show">>, <<"get_screenshot_as_png", "display">>}
              [] OTHER -> CallNames(i) = <<"print">>

\* C13: per chart exactly one thing happens: a Bokeh figure is screenshot
\* and the image displayed when the format is "png", without the interactive
\* show, and passed to show for any other format, without a screenshot; a
\* Chartify chart has its own show called with the format as given; any other
\* object gets the message.
C13_ShowDispatch ==
    displayed =>
        \A i \in DOMAIN charts :
            CASE charts[i] = "BokehFigure" /\ show_format = "png" ->
                    CallNames(i) = <<"get_screenshot_as_png", "display">>
              [] charts[i] = "BokehFigure" /\ show_format # "png" ->
                    CallNames(i) = <<"show">>
              [] charts[i] = "ChartifyChart" ->
                    CallsFor(i) = << [chart |-> i, call |-> "chart.show",
                                      format |-> show_format] >>
              [] OTHER -> CallNames(i) = <<"print">>

\* a grid holding a Bokeh figure and then a Chartify chart has been shown as
\* "png": screenshot and display for the first, chart.show("png") for the second
C13_Witness ==
    /\ displayed
    /\ show_format = "png"
    /\ Len(charts) >= 2
    /\ charts[1] = "BokehFigure" /\ charts[2] = "ChartifyChart"
    /\ Len(shown) >= 3
    /\ shown[1].call = "get_screenshot_as_png"
    /\ shown[2].call = "display"
    /\ shown[3] = [chart |-> 2, call |-> "chart.show", format |-> "png"]

-----------------------------------------------------------------------------
(* The pair of bound columns a chart build uses *)

SelectedLower == IF use_adjusted_intervals THEN ADJUSTED_LOWER ELSE CI_LOWER
SelectedUpper == IF use_adjusted_intervals THEN ADJUSTED_UPPER ELSE CI_UPPER
OtherLower == IF use_adjusted_intervals THEN CI_LOWER ELSE ADJUSTED_LOWER
OtherUpper == IF use_adjusted_intervals THEN CI_UPPER ELSE ADJUSTED_UPPER
selected_numbers ==
    Numbers(difference_df, {SelectedLower, DIFFERENCE, SelectedUpper, NULL_HYPOTHESIS})
hovered(d) == center_name \in d.keys \/ NULL_HYPOTHESIS \in d.keys

\* C12: one pair of bound columns serves a whole chart build: the adjusted
\* pair when use_adjusted_intervals is true, the plain pair when it is false.
\* That pair is the one clamped (the other is left as given), the one the
\* classifier compares with the null hypothesis, the one copied into the
\* hovered data sources, and the one the interval tooltip entry refers to;
\* the entry is labelled "adjusted confidence interval" exactly when the flag
\* is true, and "confidence interval" otherwise.
C12_OnePairOfBounds ==
    /\ charted =>
        LET y_min == y_min_of(selected_numbers)
            y_max == y_max_of(selected_numbers)
        IN  \A i \in DOMAIN dash_source :
                LET r == dash_source[i].row
                IN  /\ r[SelectedLower] =
                        to_finite(Rows[i][SelectedLower], y_min, y_max)
                    /\ r[SelectedUpper] =
                        to_finite(Rows[i][SelectedUpper], y_min, y_max)
                    /\ r[OtherLower] = Rows[i][OtherLower]
                    /\ r[OtherUpper] = Rows[i][OtherUpper]
                    /\ dash_source[i].color_column = "red" <=>
                        \/ (Lt(r[SelectedLower], r[NULL_HYPOTHESIS])
                            /\ r[PREFERENCE] = "increase")
                        \/ (Lt(r[NULL_HYPOTHESIS], r[SelectedUpper])
                            /\ r[PREFERENCE] = "decrease")
    /\ tooled =>
        /\ \A k \in DOMAIN chart_data :
            hovered(chart_data[k]) =>
                /\ {SelectedLower, SelectedUpper} \subseteq chart_data[k].written
                /\ {OtherLower, OtherUpper} \cap chart_data[k].written = {}
        /\ \E k \in DOMAIN tooltips :
            /\ \A j \in DOMAIN tooltips : Label(j) \in IntervalLabels <=> j = k
            /\ Label(k) = IF use_adjusted_intervals
                          THEN "adjusted confidence interval"
                          ELSE "confidence interval"
            /\ tooltips[k][2] =
                "(@{" \o SelectedLower \o "}{" \o axis_format \o "}, @{"
                \o SelectedUpper \o "}{" \o axis_format \o "})"

\* a chart built with adjusted intervals whose classified row had an infinite
\* adjusted lower bound: that bound was clamped, the plain one was not, both
\* hovered sources received the adjusted pair, and the entry is the adjusted one
C12_Witness ==
    /\ charted
    /\ use_adjusted_intervals
    /\ \E i \in DOMAIN dash_source :
        /\ Rows[i][ADJUSTED_LOWER] = NegInf
        /\ isfinite(dash_source[i].row[ADJUSTED_LOWER])
        /\ dash_source[i].row[CI_LOWER] = NegInf
    /\ Len(chart_data) = 2
    /\ \A k \in DOMAIN chart_data : ADJUSTED_UPPER \in chart_data[k].written
    /\ "adjusted confidence interval" \in Labels

-----------------------------------------------------------------------------
(* The fields the tooltip entries refer to *)

\* the data-source fields an entry's text names, for the entries whose fields
\* add_ci_to_chart_datasources is to supply; the center and the ordinal axis
\* entry name a field the source brings itself
Referenced(entry) ==
    IF entry[2] = "@color" THEN {"color"}
    ELSE IF entry[2] = "@reference_level: @reference_level_avg{"
                        \o axis_format_reference_level \o "}"
        THEN {"reference_level", "reference_level_avg"}
    ELSE IF entry[2] = "(@{" \o SelectedLower \o "}{" \o axis_format \o "}, @{"
                        \o SelectedUpper \o "}{" \o axis_format \o "})"
        THEN {SelectedLower, SelectedUpper}
    ELSE IF entry[2] = "@p_value{0.0000}" THEN {"p_value"}
    ELSE IF entry[2] = "@adjusted_p{0.0000}" THEN {"adjusted_p"}
    ELSE IF entry[2] = "@null_hyp{" \o axis_format \o "}" THEN {"null_hyp"}
    ELSE {}

\* C15: after add_tools every data source that holds the center or the
\* null-hypothesis key has been given, by add_ci_to_chart_datasources, every
\* field an entry of the tooltip list refers to (color, the selected bounds,
\* and reference_level, reference_level_avg, p_value, adjusted_p, null_hyp
\* when their entries are there), whatever the center statistic and whether
\* or not the table has the level_1 and null-hypothesis columns; a source
\* holding none of the center, difference and null-hypothesis keys is left
\* as it was.
C15_TooltipFieldsPopulated ==
    tooled =>
        \A k \in DOMAIN chart_data :
            LET d == chart_data[k]
            IN  /\ hovered(d) =>
                    \A j \in DOMAIN tooltips : Referenced(tooltips[j]) \subseteq d.written
                /\ ({center_name, DIFFERENCE, NULL_HYPOTHESIS} \cap d.keys = {})
                    => d.written = {}

-----------------------------------------------------------------------------
(* One chart, or one chart per level *)

plotted == pc \in {"plot_difference", "plot_differences", "plot_multiple_difference"}

\* the names in groupby, and those of them that are not the ordinal column
GroupbyNames == {groupby.names[k] : k \in DOMAIN groupby.names}
CategoricalGroups == GroupbyNames \ {ordinal_group_column}

\* the level of a row: its value in each categorical group
LevelOf(r) == [c \in CategoricalGroups |-> r[c]]
Levels == {LevelOf(plot_df[i]) : i \in DOMAIN plot_df}

\* the first column of groupby, in its order, in which two levels differ
\* decides which comes first
Before(a, b) ==
    \E k \in DOMAIN groupby.names :
        LET c == groupby.names[k]
        IN  /\ c \in CategoricalGroups
            /\ a[c] < b[c]
            /\ \A j \in 1..(k - 1) :
                groupby.names[j] \in CategoricalGroups
                    => a[groupby.names[j]] = b[groupby.names[j]]

IsOrdinalPlot(chart) ==
    chart.plot \in {"_ordinal_difference_plot", "_ordinal_multiple_difference_plot"}
IsCategoricalPlot(chart) ==
    chart.plot \in {"_categorical_difference_plot",
                    "_categorical_multiple_difference_plot"}

\* C14: a plot_difference, plot_differences or plot_multiple_difference call
\* returns one chart drawn from the whole table when groupby holds no column
\* but the ordinal one, or split_plot_by_groups is false; otherwise one chart
\* per distinct level of the categorical groups, levels ascending, each drawn
\* from exactly the rows of its level. Every chart is an ordinal plot if the
\* ordinal group column is in groupby and a categorical plot if it is not.
C14_OneChartOrOnePerLevel ==
    plotted =>
        /\ \A k \in DOMAIN plot_charts :
            IF ordinal_group_column \in GroupbyNames
            THEN IsOrdinalPlot(plot_charts[k])
            ELSE IsCategoricalPlot(plot_charts[k])
        /\ IF CategoricalGroups = {} \/ ~split_plot_by_groups
           THEN /\ Len(plot_charts) = 1
                /\ plot_charts[1].df = plot_df
           ELSE /\ Len(plot_charts) = Cardinality(Levels)
                /\ \A k \in DOMAIN plot_charts :
                    \E level \in Levels :
                        plot_charts[k].df =
                            SelectSeq(plot_df, LAMBDA r : LevelOf(r) = level)
                /\ \A k \in DOMAIN plot_charts :
                    k > 1 => Before(LevelOf(plot_charts[k - 1].df[1]),
                                    LevelOf(plot_charts[k].df[1]))

\* a table of two rows with different countries, split by country and drawn
\* over the ordinal column: two ordinal plots, the lower country first, each
\* from its own row
C14_Witness ==
    /\ plotted
    /\ split_plot_by_groups
    /\ groupby = List(<<"country", "date">>)
    /\ Len(plot_df) = 2
    /\ plot_df[1].country > plot_df[2].country
    /\ Len(plot_charts) = 2
    /\ plot_charts[1] = Chart("_ordinal_difference_plot", <<plot_df[2]>>)
    /\ plot_charts[2] = Chart("_ordinal_difference_plot", <<plot_df[1]>>)

====
